---- MODULE Spec2Model ----
(***************************************************************************)
(* healtcheck_VMware.py: a single-pass script that opens a session to a    *)
(* vCenter/ESXi endpoint, enumerates the virtual machines, keeps the       *)
(* powered-on ones that are not vCLS machines, reads five summary fields   *)
(* per machine and ranks the records per metric (top 10, descending).      *)
(*                                                                         *)
(* The model follows the script statement by statement: pc is the next     *)
(* statement to run, the other variables are the names the script binds    *)
(* and the state of the upstream objects (session, container view).        *)
(***************************************************************************)
EXTENDS Integers, Sequences, FiniteSets, TLC

VARIABLES
    pc,              \* next statement of the script
    inventory,       \* machines known to the endpoint (sequence of VM objects)
    session,         \* "none" | "open" | "closed": the session si
    atexitHandlers,  \* callbacks registered with atexit, in registration order
    viewState,       \* "none" | "live" | "destroyed": the container view
    bound,           \* names the script has bound so far
    vms,             \* main: vms
    vms_filtradas,   \* main: vms_filtradas
    stdout,          \* what print() has written: the sequence of printed counts
    metricas,        \* main: metricas
    tables,          \* main: top_cpu, top_ram_asignada, ... (by column name)
    log,             \* history of calls: [call, session at the call, raised]
    status,          \* "running" | "ok" | "failure": how the run ended
    error            \* "none" or the exception that ended the run

vars == <<pc, inventory, session, atexitHandlers, viewState, bound, vms,
          vms_filtradas, stdout, metricas, tables, log, status, error>>

-----------------------------------------------------------------------------
(* Bounds of the model *)

\* longest inventory the endpoint reports
MaxVMs == 3

-----------------------------------------------------------------------------
(* Python values *)

\* Python's None (pandas shows it as NaN in a numeric column). Every reading
\* of the endpoint is a natural number, so None is encoded below all of them
\* and never compared with <, >= as a number: see IsNum.
None == 0 - 1

IsNum(x) == x # None

\* head(10) of lines 68-72
TopN == 10

\* the attributes read with getattr, lines 48-55
Attrs == {"overallCpuLatency", "memorySizeMB", "guestMemoryUsage",
          "overallNetworkUsage", "overallDiskUsage"}

\* the keys of a record of recolectar_metricas other than 'name', with the
\* attribute each is read from
Columns == <<"cpu_ready", "ram_asignada", "ram_consumida", "net_usage", "iops">>

AttrOf(col) ==
    CASE col = "cpu_ready"     -> "overallCpuLatency"
      [] col = "ram_asignada"  -> "memorySizeMB"
      [] col = "ram_consumida" -> "guestMemoryUsage"
      [] col = "net_usage"     -> "overallNetworkUsage"
      [] col = "iops"          -> "overallDiskUsage"

\* getattr(obj, name, default): the default is used only when the attribute
\* does not exist; an attribute that exists and holds None yields None.
getattr(vm, name, default) ==
    IF name \in vm.has THEN vm.val[name] ELSE default

-----------------------------------------------------------------------------
(* str.lower and str.startswith on names, a name being a sequence of characters *)

UpperCase == <<"A","B","C","D","E","F","G","H","I","J","K","L","M",
               "N","O","P","Q","R","S","T","U","V","W","X","Y","Z">>
LowerCase == <<"a","b","c","d","e","f","g","h","i","j","k","l","m",
               "n","o","p","q","r","s","t","u","v","w","x","y","z">>

LowerChar(c) ==
    IF \E i \in DOMAIN UpperCase : UpperCase[i] = c
    THEN LowerCase[CHOOSE i \in DOMAIN UpperCase : UpperCase[i] = c]
    ELSE c

lower(s) == [i \in DOMAIN s |-> LowerChar(s[i])]

startswith(s, prefix) ==
    /\ Len(s) >= Len(prefix)
    /\ SubSeq(s, 1, Len(prefix)) = prefix

\* the literal 'vcls' of line 39
vcls == <<"v", "c", "l", "s">>

-----------------------------------------------------------------------------
(* The machines the endpoint may report *)

AllAttrs(cpu, mem, gmem, net, disk) ==
    [a \in Attrs |->
        CASE a = "overallCpuLatency"   -> cpu
          [] a = "memorySizeMB"        -> mem
          [] a = "guestMemoryUsage"    -> gmem
          [] a = "overallNetworkUsage" -> net
          [] a = "overallDiskUsage"    -> disk]

\* A VM object: name, runtime.powerState, the attributes that exist on
\* summary.quickStats / summary.config (has) and what they hold (val).
VMPool == {
    [name |-> <<"v","C","L","S","-","1">>, powerState |-> "poweredOn",
     has |-> Attrs, val |-> AllAttrs(90, 2, 1, 9, 9)],
    [name |-> <<"W","e","b","0","1">>, powerState |-> "poweredOn",
     has |-> Attrs, val |-> AllAttrs(50, 4, 2, 3, 7)],
    [name |-> <<"W","e","b","0","2">>, powerState |-> "poweredOff",
     has |-> Attrs, val |-> AllAttrs(90, 16, 0, 0, 0)],
    [name |-> <<"D","B","0","1">>, powerState |-> "poweredOn",
     has |-> {"overallCpuLatency", "memorySizeMB", "guestMemoryUsage"},
     val |-> AllAttrs(10, 8, 6, 0, 0)],
    [name |-> <<"V","C","L">>, powerState |-> "poweredOn",
     has |-> Attrs, val |-> AllAttrs(50, None, None, 1, 2)],
    [name |-> <<"M","y","v","c","l","s">>, powerState |-> "poweredOn",
     has |-> {}, val |-> AllAttrs(0, 0, 0, 0, 0)],
    [name |-> <<"V","C","L","S","x">>, powerState |-> "suspended",
     has |-> {"memorySizeMB"}, val |-> AllAttrs(0, 32, 0, 0, 0)]
}

\* inventories: sequences of distinct machines, at most MaxVMs long
Inventories ==
    UNION {
        {s \in [1..n -> VMPool] : \A i, j \in 1..n : i # j => s[i] # s[j]}
        : n \in 0..MaxVMs }

-----------------------------------------------------------------------------
(* The pure functions of the script *)

\* Keeps without the .lower(): the prefix is compared case-sensitively
KeepsCaseSensitive(vm) ==
    /\ vm.powerState = "poweredOn"
    /\ ~startswith(vm.name, vcls)

\* line 39, the condition of the comprehension
Keeps(vm) ==
    /\ vm.powerState = "poweredOn"
    /\ ~startswith(lower(vm.name), vcls)

Reverse(l) == [i \in DOMAIN l |-> l[Len(l) + 1 - i]]

\* filtrar_vms building its result back to front
filtrar_vms_reversed(l) == Reverse(SelectSeq(l, Keeps))

\* lines 38-39
filtrar_vms(l) == SelectSeq(l, Keeps)

\* lines 43-56
recolectar_metricas(vm) ==
    [name          |-> vm.name,
     cpu_ready     |-> getattr(vm, "overallCpuLatency", 0),
     ram_asignada  |-> getattr(vm, "memorySizeMB", 0),
     ram_consumida |-> getattr(vm, "guestMemoryUsage", 0),
     net_usage     |-> getattr(vm, "overallNetworkUsage", 0),
     iops          |-> getattr(vm, "overallDiskUsage", 0)]

\* line 65
collect(l) == [i \in DOMAIN l |-> recolectar_metricas(l[i])]

\* line 66, pd.DataFrame(list of dicts): the columns are the keys of the
\* dicts, so a DataFrame built from an empty list has no column at all.
DataFrame(rows) ==
    [columns |-> IF rows = <<>> THEN {} ELSE {"name"} \cup {Columns[i] : i \in DOMAIN Columns},
     rows    |-> rows]

Permutations1(n) == {p \in [1..n -> 1..n] : \A i, j \in 1..n : i # j => p[i] # p[j]}

\* df.sort_values(col, ascending=False) with pandas' defaults: the numbers in
\* non-increasing order, then the missing values (na_position='last') in their
\* original order. kind='quicksort' is not a stable sort, so rows with equal
\* values may come out in any order: the operator is the set of outcomes.
sort_values(df, col) ==
    LET n == Len(df.rows)
        v(i) == df.rows[i][col]
        Ordered(p) ==
            \A i, j \in 1..n : i < j =>
                /\ IsNum(v(p[j])) => IsNum(v(p[i])) /\ v(p[i]) >= v(p[j])
                /\ ~IsNum(v(p[i])) => p[i] < p[j]
    IN  {[i \in 1..n |-> df.rows[p[i]]] : p \in {q \in Permutations1(n) : Ordered(q)}}

\* .head(n)
head(rows, n) == SubSeq(rows, 1, IF Len(rows) < n THEN Len(rows) ELSE n)

-----------------------------------------------------------------------------
(* The script, statement by statement *)

NoTables == [top_cpu |-> <<>>, top_ram_asignada |-> <<>>, top_ram_consumida |-> <<>>,
             top_net |-> <<>>, top_iops |-> <<>>]

TableNames == {"top_cpu", "top_ram_asignada", "top_ram_consumida", "top_net", "top_iops"}

\* the column a table is ranked by, lines 68-72
ColumnOf(t) ==
    CASE t = "top_cpu"           -> "cpu_ready"
      [] t = "top_ram_asignada"  -> "ram_asignada"
      [] t = "top_ram_consumida" -> "ram_consumida"
      [] t = "top_net"           -> "net_usage"
      [] t = "top_iops"          -> "iops"

Init ==
    /\ pc = "input"
    /\ inventory \in Inventories
    /\ session = "none"
    /\ atexitHandlers = <<>>
    /\ viewState = "none"
    /\ bound = {}
    /\ vms = <<>>
    /\ vms_filtradas = <<>>
    /\ stdout = <<>>
    /\ metricas = <<>>
    /\ tables = NoTables
    /\ log = <<>>
    /\ status = "running"
    /\ error = "none"

\* the statements with container.Destroy() placed before the read of
\* container.view
NextStmtDestroyFirst(p) ==
    CASE p = "input"               -> "SmartConnect"
      [] p = "SmartConnect"        -> "register"
      [] p = "register"            -> "RetrieveContent"
      [] p = "RetrieveContent"     -> "CreateContainerView"
      [] p = "CreateContainerView" -> "Destroy"
      [] p = "Destroy"             -> "view"
      [] p = "view"                -> "filtrar_vms"
      [] p = "filtrar_vms"         -> "print"
      [] p = "print"               -> "recolectar_metricas"
      [] p = "recolectar_metricas" -> "rank"
      [] p = "rank"                -> "atexit"
      [] p = "atexit"              -> "exited"

\* the order of the statements: module level (14-26), main (61-72) with
\* get_all_vms (31-34) inlined at its call, then interpreter exit
NextStmt(p) ==
    CASE p = "input"               -> "SmartConnect"
      [] p = "SmartConnect"        -> "register"
      [] p = "register"            -> "RetrieveContent"
      [] p = "RetrieveContent"     -> "CreateContainerView"
      [] p = "CreateContainerView" -> "view"
      [] p = "view"                -> "Destroy"
      [] p = "Destroy"             -> "filtrar_vms"
      [] p = "filtrar_vms"         -> "print"
      [] p = "print"               -> "recolectar_metricas"
      [] p = "recolectar_metricas" -> "rank"
      [] p = "rank"                -> "atexit"
      [] p = "atexit"              -> "exited"

Running == {"input", "SmartConnect", "register", "RetrieveContent",
            "CreateContainerView", "view", "Destroy", "filtrar_vms", "print",
            "recolectar_metricas", "rank"}

\* the history after a call c that returned, and after one that raised
Called(c) == Append(log, [call |-> c, session |-> session, raised |-> FALSE])

CalledAndRaised(c) == Append(log, [call |-> c, session |-> session, raised |-> TRUE])

\* an exception nobody catches: the traceback is printed and the interpreter
\* shuts down, running the atexit callbacks, with a failure exit status
Raise(e) ==
    /\ pc' = "atexit"
    /\ status' = "failure"
    /\ error' = e

\* lines 14-20: the four prompts and the SSL context
Input ==
    /\ pc = "input"
    /\ pc' = NextStmt(pc)
    /\ UNCHANGED <<inventory, session, atexitHandlers, viewState, bound, vms,
                   vms_filtradas, stdout, metricas, tables, log, status, error>>

\* line 23 inside a retry loop: a failed SmartConnect is tried again
ConnectRetry ==
    /\ pc = "SmartConnect"
    /\ \E ok \in BOOLEAN :
         IF ok
         THEN /\ session' = "open"
              /\ bound' = bound \cup {"si"}
              /\ log' = Called("SmartConnect")
              /\ pc' = NextStmt(pc)
         ELSE /\ log' = CalledAndRaised("SmartConnect")
              /\ UNCHANGED <<session, bound, pc>>
    /\ UNCHANGED <<inventory, atexitHandlers, viewState, vms, vms_filtradas,
                   stdout, metricas, tables, status, error>>

\* line 23: si = SmartConnect(...); it either returns an open session or
\* raises (unreachable host, bad credentials), and nothing catches that
Connect ==
    /\ pc = "SmartConnect"
    /\ \E ok \in BOOLEAN :
         IF ok
         THEN /\ session' = "open"
              /\ bound' = bound \cup {"si"}
              /\ log' = Called("SmartConnect")
              /\ pc' = NextStmt(pc)
              /\ UNCHANGED <<status, error>>
         ELSE /\ Raise("ConnectError")
              /\ log' = CalledAndRaised("SmartConnect")
              /\ UNCHANGED <<session, bound>>
    /\ UNCHANGED <<inventory, atexitHandlers, viewState, vms, vms_filtradas,
                   stdout, metricas, tables>>

\* the registration made twice
atexit_register_twice(handlers, f) == Append(Append(handlers, f), f)

\* atexit.register(f, si)
atexit_register(handlers, f) == Append(handlers, f)

\* line 24 written atexit.register(Disconnect(si)): the call is made at once
\* and its result is what gets registered
RegisterCallsNow ==
    /\ pc = "register"
    /\ session' = "closed"
    /\ log' = Append(Called("atexit.register"),
                     [call |-> "Disconnect", session |-> session, raised |-> FALSE])
    /\ pc' = NextStmt(pc)
    /\ UNCHANGED <<inventory, atexitHandlers, viewState, bound, vms,
                   vms_filtradas, stdout, metricas, tables, status, error>>

\* line 24
Register ==
    /\ pc = "register"
    /\ atexitHandlers' = atexit_register(atexitHandlers, "Disconnect")
    /\ log' = Called("atexit.register")
    /\ pc' = NextStmt(pc)
    /\ UNCHANGED <<inventory, session, viewState, bound, vms, vms_filtradas,
                   stdout, metricas, tables, status, error>>

\* line 26
RetrieveContent ==
    /\ pc = "RetrieveContent"
    /\ bound' = bound \cup {"content"}
    /\ log' = Called("RetrieveContent")
    /\ pc' = NextStmt(pc)
    /\ UNCHANGED <<inventory, session, atexitHandlers, viewState, vms,
                   vms_filtradas, stdout, metricas, tables, status, error>>

\* line 31
CreateContainerView ==
    /\ pc = "CreateContainerView"
    /\ viewState' = "live"
    /\ bound' = bound \cup {"container"}
    /\ log' = Called("CreateContainerView")
    /\ pc' = NextStmt(pc)
    /\ UNCHANGED <<inventory, session, atexitHandlers, vms, vms_filtradas,
                   stdout, metricas, tables, status, error>>

\* line 32: vms = container.view (the local vms of get_all_vms)
ReadView ==
    /\ pc = "view"
    /\ vms' = inventory
    /\ bound' = bound \cup {"get_all_vms.vms"}
    /\ log' = Called("view")
    /\ pc' = NextStmt(pc)
    /\ UNCHANGED <<inventory, session, atexitHandlers, viewState,
                   vms_filtradas, stdout, metricas, tables, status, error>>

\* lines 33-34 and the assignment of line 61: container.Destroy(), return vms
DestroyView ==
    /\ pc = "Destroy"
    /\ viewState' = "destroyed"
    /\ bound' = bound \cup {"vms"}
    /\ log' = Called("Destroy")
    /\ pc' = NextStmt(pc)
    /\ UNCHANGED <<inventory, session, atexitHandlers, vms, vms_filtradas,
                   stdout, metricas, tables, status, error>>

\* line 62
Filter ==
    /\ pc = "filtrar_vms"
    /\ vms_filtradas' = filtrar_vms(vms)
    /\ bound' = bound \cup {"vms_filtradas"}
    /\ log' = Called("filtrar_vms")
    /\ pc' = NextStmt(pc)
    /\ UNCHANGED <<inventory, session, atexitHandlers, viewState, vms,
                   stdout, metricas, tables, status, error>>

\* line 63
PrintCount ==
    /\ pc = "print"
    /\ stdout' = Append(stdout, Len(vms_filtradas))
    /\ log' = Called("print")
    /\ pc' = NextStmt(pc)
    /\ UNCHANGED <<inventory, session, atexitHandlers, viewState, bound, vms,
                   vms_filtradas, metricas, tables, status, error>>

\* line 65
Collect ==
    /\ pc = "recolectar_metricas"
    /\ metricas' = collect(vms_filtradas)
    /\ bound' = bound \cup {"metricas"}
    /\ log' = Called("recolectar_metricas")
    /\ pc' = NextStmt(pc)
    /\ UNCHANGED <<inventory, session, atexitHandlers, viewState, vms,
                   vms_filtradas, stdout, tables, status, error>>

\* lines 66-72 and the return of main: the DataFrame and the five rankings.
\* sort_values raises KeyError when the frame has no such column, which is
\* the case of a frame built from an empty list; line 68 is the first to do so.
Rank ==
    /\ pc = "rank"
    /\ LET df == DataFrame(metricas) IN
         IF \A t \in TableNames : ColumnOf(t) \in df.columns
         THEN /\ \E cpu \in sort_values(df, "cpu_ready"),
                    asg \in sort_values(df, "ram_asignada"),
                    con \in sort_values(df, "ram_consumida"),
                    net \in sort_values(df, "net_usage"),
                    io  \in sort_values(df, "iops") :
                    tables' = [top_cpu           |-> head(cpu, TopN),
                               top_ram_asignada  |-> head(asg, TopN),
                               top_ram_consumida |-> head(con, TopN),
                               top_net           |-> head(net, TopN),
                               top_iops          |-> head(io, TopN)]
              /\ bound' = bound \cup {"df"} \cup TableNames
              /\ log' = Called("sort_values")
              /\ pc' = NextStmt(pc)
              /\ status' = "ok"
              /\ error' = error
         ELSE /\ Raise("KeyError")
              /\ log' = CalledAndRaised("sort_values")
              /\ bound' = bound \cup {"df"}
              /\ tables' = tables
    /\ UNCHANGED <<inventory, session, atexitHandlers, viewState, vms,
                   vms_filtradas, stdout, metricas>>

\* an upstream fault (network error, malformed reply) in the statement about
\* to run, or a KeyboardInterrupt before it: nothing in the script catches
\* either. A failure of SmartConnect itself is part of Connect.
Abort ==
    /\ pc \in Running \ {"SmartConnect"}
    /\ Raise("Interrupted")
    /\ UNCHANGED <<inventory, session, atexitHandlers, viewState, bound, vms,
                   vms_filtradas, stdout, metricas, tables, log>>

\* interpreter exit: every registered callback runs once; the only callback
\* the script registers is Disconnect(si), which closes the session
RunAtexit ==
    /\ pc = "atexit"
    /\ log' = log \o [i \in 1..Len(atexitHandlers) |->
                        [call |-> atexitHandlers[i],
                         session |-> IF i = 1 THEN session ELSE "closed",
                         raised |-> FALSE]]
    /\ session' = IF atexitHandlers # <<>> THEN "closed" ELSE session
    /\ atexitHandlers' = <<>>
    /\ pc' = NextStmt(pc)
    /\ UNCHANGED <<inventory, viewState, bound, vms, vms_filtradas, stdout,
                   metricas, tables, status, error>>

Next ==
    \/ Input
    \/ Connect
    \/ Register
    \/ RetrieveContent
    \/ CreateContainerView
    \/ ReadView
    \/ DestroyView
    \/ Filter
    \/ PrintCount
    \/ Collect
    \/ Rank
    \/ Abort
    \/ RunAtexit

Spec == Init /\ [][Next]_vars

-----------------------------------------------------------------------------
(* Vocabulary of the properties *)

Calls(c) == {i \in DOMAIN log : log[i].call = c}

Count(c) == Cardinality(Calls(c))

\* a name that starts with v, c, l, s in any letter case
IsVclsName(nm) ==
    /\ Len(nm) >= 4
    /\ nm[1] \in {"v", "V"}
    /\ nm[2] \in {"c", "C"}
    /\ nm[3] \in {"l", "L"}
    /\ nm[4] \in {"s", "S"}

InSeq(x, l) == \E i \in DOMAIN l : l[i] = x

\* a is b with some elements left out
IsSubSeq(a, b) ==
    \E f \in [1..Len(a) -> 1..Len(b)] :
        /\ \A i \in 1..Len(a) : a[i] = b[f[i]]
        /\ \A i, j \in 1..Len(a) : i < j => f[i] < f[j]

\* x >= y between two metric values: false as soon as one of them is None
\* (NaN compares false with everything)
Geq(x, y) == IsNum(x) /\ IsNum(y) /\ x >= y

Min(a, b) == IF a < b THEN a ELSE b

-----------------------------------------------------------------------------
(* C1 *)

\* C1: filtrar_vms retains a machine if and only if it is powered on and its
\* name does not start with 'vcls' in any letter case; it retains nothing
\* that was not in its input.
C1_FilterPredicate ==
    "vms_filtradas" \in bound =>
        /\ \A i \in DOMAIN vms :
              InSeq(vms[i], vms_filtradas) <=>
                  (vms[i].powerState = "poweredOn" /\ ~IsVclsName(vms[i].name))
        /\ \A j \in DOMAIN vms_filtradas : InSeq(vms_filtradas[j], vms)

\* the filter has run on a list holding a powered-on 'vCLS-1', a machine that
\* is not powered on and a machine it retains
C1_Witness ==
    /\ "vms_filtradas" \in bound
    /\ \E i \in DOMAIN vms :
          vms[i].powerState = "poweredOn" /\ vms[i].name = <<"v","C","L","S","-","1">>
    /\ \E i \in DOMAIN vms : vms[i].powerState # "poweredOn"
    /\ vms_filtradas # <<>>

-----------------------------------------------------------------------------
(* C2 *)

\* C2: for a machine on which a summary field is missing or unset,
\* recolectar_metricas reports 0 for that field.
C2_MissingOrUnsetIsZero ==
    "metricas" \in bound =>
        \A i \in DOMAIN metricas : \A c \in DOMAIN Columns :
            LET vm == vms_filtradas[i]
                a  == AttrOf(Columns[c])
            IN  (a \notin vm.has \/ vm.val[a] = None) => metricas[i][Columns[c]] = 0

-----------------------------------------------------------------------------
(* C3 *)

\* C3: when no machine matches the filter and nothing interrupts the run, main
\* completes normally, 0 is the printed count and the five tables are
\* produced and empty.
C3_EmptyInventoryCompletes ==
    (pc = "exited" /\ "vms_filtradas" \in bound /\ vms_filtradas = <<>>
        /\ error # "Interrupted") =>
        /\ status = "ok"
        /\ stdout = <<0>>
        /\ TableNames \subseteq bound
        /\ \A t \in TableNames : tables[t] = <<>>

-----------------------------------------------------------------------------
(* C4 *)

\* C4 as stated: on every exit path, a failed SmartConnect included, the
\* session has been closed exactly once when the process has exited.
C4_ClosedOnceOnEveryPath ==
    pc = "exited" => Count("Disconnect") = 1

\* C4: a run that got to register the cleanup (line 24) closes the session
\* exactly once, at process exit, however it ends; a run that ended before
\* that never calls Disconnect; no run calls it twice or before exit.
C4_ClosedOnceIfRegistered ==
    /\ Count("Disconnect") <= 1
    /\ Count("Disconnect") = 1 => pc = "exited" /\ session = "closed"
    /\ pc = "exited" =>
          Count("Disconnect") = (IF Count("atexit.register") > 0 THEN 1 ELSE 0)

\* a run that failed after the registration and has closed its session
C4_Witness ==
    /\ pc = "exited"
    /\ status = "failure"
    /\ Count("atexit.register") = 1
    /\ Count("Disconnect") = 1

-----------------------------------------------------------------------------
(* C5 *)

\* C5: each ranking table has at most 10 records, in non-increasing order of
\* its metric.
C5_TablesSortedTop10 ==
    TableNames \subseteq bound =>
        \A t \in TableNames :
            /\ Len(tables[t]) <= TopN
            /\ \A i \in 1..(Len(tables[t]) - 1) :
                  Geq(tables[t][i][ColumnOf(t)], tables[t][i + 1][ColumnOf(t)])

-----------------------------------------------------------------------------
(* C6 *)

\* C6: once the ranking has been asked of n collected records, each table
\* holds exactly min(10, n) of them and no record left out has a larger
\* metric than a record of the table.
C6_TrueTop10 ==
    Count("sort_values") > 0 =>
        /\ TableNames \subseteq bound
        /\ \A t \in TableNames :
              /\ Len(tables[t]) = Min(TopN, Len(metricas))
              /\ \A i \in DOMAIN tables[t] : InSeq(tables[t][i], metricas)
              /\ \A k \in DOMAIN metricas :
                    ~InSeq(metricas[k], tables[t]) =>
                        \A i \in DOMAIN tables[t] :
                            Geq(tables[t][i][ColumnOf(t)], metricas[k][ColumnOf(t)])

-----------------------------------------------------------------------------
(* C7 *)

\* C7: the step that runs filtrar_vms yields a sub-sequence of its input (same
\* relative order, nothing added or duplicated) and leaves the input as it was.
C7_FilterKeepsOrder ==
    [][pc = "filtrar_vms" => (IsSubSeq(vms_filtradas', vms) /\ vms' = vms)]_vars

\* the filter has retained two machines and dropped the one between them
C7_Witness ==
    /\ "vms_filtradas" \in bound
    /\ Len(vms) = 3
    /\ Len(vms_filtradas) = 2
    /\ vms_filtradas = <<vms[1], vms[3]>>

-----------------------------------------------------------------------------
(* C8 *)

ConnectFailed == \E i \in Calls("SmartConnect") : log[i].raised

\* C8: after a failed SmartConnect there is exactly one connection attempt and
\* no other call, no view, no bound name, nothing printed, no table, and the
\* run is ending or has ended as a failure.
C8_ConnectFailureEndsRun ==
    ConnectFailed =>
        /\ Count("SmartConnect") = 1
        /\ Len(log) = 1
        /\ session = "none"
        /\ viewState = "none"
        /\ bound = {}
        /\ vms = <<>> /\ vms_filtradas = <<>> /\ metricas = <<>>
        /\ stdout = <<>>
        /\ tables = NoTables
        /\ status = "failure"
        /\ pc \in {"atexit", "exited"}

\* the process has exited after a failed SmartConnect
C8_Witness ==
    /\ ConnectFailed
    /\ pc = "exited"
    /\ inventory # <<>>

-----------------------------------------------------------------------------
(* C9 *)

\* C9: the view is created once, read only while it exists and before it is
\* destroyed, destroyed once and only after the read; once get_all_vms has
\* returned, all three have happened and the list returned is the list of
\* the view.
C9_ViewReadThenDestroyed ==
    /\ \A c \in {"CreateContainerView", "view", "Destroy"} : Count(c) <= 1
    /\ \A i \in Calls("view") :
          /\ \E j \in Calls("CreateContainerView") : j < i
          /\ \A j \in Calls("Destroy") : i < j
    /\ \A i \in Calls("Destroy") : \E j \in Calls("view") : j < i
    /\ viewState = "destroyed" <=> Count("Destroy") = 1
    /\ "vms" \in bound =>
          /\ \A c \in {"CreateContainerView", "view", "Destroy"} : Count(c) = 1
          /\ viewState = "destroyed"
          /\ vms = inventory

\* get_all_vms has returned a list of several machines
C9_Witness ==
    /\ "vms" \in bound
    /\ Len(vms) >= 2
    /\ viewState = "destroyed"

-----------------------------------------------------------------------------
(* C10 *)

StageOrder == <<"SmartConnect", "atexit.register", "RetrieveContent",
                "CreateContainerView", "view", "Destroy", "filtrar_vms",
                "print", "recolectar_metricas", "sort_values">>

\* C10: the calls happen in the order connect, enumerate, filter, print,
\* collect, rank, each at most once and none skipped; every call after the
\* connection finds the session open; Disconnect comes last, at exit only,
\* and nothing is called once the session is closed.
C10_SessionOpenDuringCalls ==
    /\ \A i \in DOMAIN log :
          /\ log[i].call # "Disconnect" =>
                i <= Len(StageOrder) /\ log[i].call = StageOrder[i]
          /\ log[i].call = "Disconnect" => i = Len(log) /\ pc = "exited"
          /\ log[i].session = (IF log[i].call = "SmartConnect" THEN "none" ELSE "open")
    /\ session = "closed" =>
          /\ pc = "exited"
          /\ log # <<>> /\ log[Len(log)].call = "Disconnect"

\* a complete run: every stage has run and the session was closed after the
\* ranking
C10_Witness ==
    /\ session = "closed"
    /\ status = "ok"
    /\ Len(log) = Len(StageOrder) + 1

====
